---- MODULE Spec2Model ----
(***************************************************************************)
(* Model of the live automation console (the Console page component):      *)
(* the log store (logs, nextIdRef), the run state (isRunning), the goal    *)
(* input, the WebSocket owned by the mount effect and its four lifecycle   *)
(* callbacks, and the three user handlers handleRun, handleStop and        *)
(* handleClear together with the JSX that decides which of them the user   *)
(* can reach.                                                              *)
(*                                                                         *)
(* Strings are sequences of one-character strings, so that trim(),         *)
(* toLowerCase(), includes() and the completion regex are computed.        *)
(* The wall-clock timestamp of a log entry is left out: no handler reads   *)
(* it back.                                                                *)
(***************************************************************************)
EXTENDS Integers, Sequences, FiniteSets, TLC

VARIABLES goal, isRunning, logs, nextId, wsRef, readyState, closeDelivered,
          sent, view, toast, ev, delivered, mounted, mounts, released

vars == <<goal, isRunning, logs, nextId, wsRef, readyState, closeDelivered,
          sent, view, toast, ev, delivered, mounted, mounts, released>>

\* the effect's side of the component: whether the effect is set up, how
\* often it has run, and the sockets its cleanups have let go of
lifecycle == <<mounted, mounts, released>>

\* ------------------------------------------------------------------ bounds
\* longest log the model lets grow before a clear is needed
MaxLog == 3
\* most goals the transport carries in one behaviour
MaxSent == 2
\* most runs of the mount effect in one behaviour
MaxMounts == 2

\* --------------------------------------------------------- string literals
MsgReady == <<"A","g","e","n","t"," ","U","I"," ","r","e","a","d","y">>
WS_URL == <<"w","s",":","/","/","l","o","c","a","l","h","o","s","t",":","8","0","0","0","/","w","s","/","c","h","a","t">>
ConnectedPrefix == <<"C","o","n","n","e","c","t","e","d"," ","t","o"," ","t","h","e"," ","b","a","c","k","e","n","d"," ","(">>
ClosedPrefix == <<"W","e","b","S","o","c","k","e","t"," ","c","l","o","s","e","d"," ","(","c","o","d","e","=">>
MsgSocketError == <<"W","e","b","S","o","c","k","e","t"," ","e","r","r","o","r"," ","-"," ","c","h","e","c","k"," ","b","a","c","k","e","n","d">>
MsgNotOpen == <<"S","o","c","k","e","t"," ","n","o","t"," ","o","p","e","n"," ","-"," ","c","a","n","n","o","t"," ","s","e","n","d"," ","g","o","a","l">>
ExecutingPrefix == <<"E","x","e","c","u","t","i","n","g"," ","g","o","a","l",":"," ">>
FailedPrefix == <<"F","a","i","l","e","d"," ","t","o"," ","s","e","n","d"," ","g","o","a","l",":"," ">>
MsgStopped == <<"A","g","e","n","t"," ","e","x","e","c","u","t","i","o","n"," ","s","t","o","p","p","e","d"," ","b","y"," ","u","s","e","r">>
\* String(x) of a non-string frame payload
BlobText == <<"[","o","b","j","e","c","t"," ","B","l","o","b","]">>
\* String(e) of the exception a rejected send raises
SendErrorText == <<"I","n","v","a","l","i","d","S","t","a","t","e","E","r","r","o","r">>

W_error == <<"e","r","r","o","r">>
W_fail == <<"f","a","i","l">>
W_tool == <<"t","o","o","l">>
W_clicked == <<"c","l","i","c","k","e","d">>
W_completed == <<"c","o","m","p","l","e","t","e","d">>
W_success == <<"s","u","c","c","e","s","s">>
W_done == <<"d","o","n","e">>
W_satisfied == <<"s","a","t","i","s","f","i","e","d">>

\* ------------------------------------------------------------ the inputs
\* goal texts the user can type: empty, whitespace only, and a goal with
\* surrounding spaces that trim() and send() treat differently
Goals == { <<>>, <<" ", "\t">>, <<" ","g","o"," ">> }

\* frames the remote agent can deliver; kind "blob" is a non-string payload
TextFrame(s) == [kind |-> "string", chars |-> s]
Frames == { TextFrame(<<"T","a","s","k"," ","c","o","m","p","l","e","t","e","d"," ","s","u","c","c","e","s","s","f","u","l","l","y">>),
            TextFrame(<<"T","o","o","l"," ","c","l","i","c","k","e","d"," ","b","u","t","t","o","n"," ","#","3">>),
            TextFrame(<<"D","O","N","E">>),
            TextFrame(<<"t","o","o","l"," ","f","a","i","l","e","d">>),
            [kind |-> "blob", chars |-> <<>>] }

\* texts for the classifier on its own: every trigger word alone, in mixed
\* case, pairs that pit one rule against another, and the empty string
ClassifierTexts ==
    { <<>>,
      <<"o","k">>,
      <<"E","R","R","O","R">>,
      <<"F","a","i","l">>,
      <<"T","o","o","l">>,
      <<"c","l","i","c","k","e","d">>,
      <<"C","o","m","p","l","e","t","e","d">>,
      <<"S","U","C","C","E","S","S">>,
      <<"d","o","n","e">>,
      <<"t","o","o","l"," ","f","a","i","l","e","d">>,
      <<"E","r","r","o","r"," ","t","o","o","l">>,
      <<"s","u","c","c","e","s","s"," ","f","a","i","l">>,
      <<"T","o","o","l"," ","c","o","m","p","l","e","t","e","d">>,
      <<"c","l","i","c","k","e","d"," ","s","u","c","c","e","s","s">> }

ClassifierFrames == { TextFrame(t) : t \in ClassifierTexts }

\* close codes the transport reports: normal closure and abnormal closure
CloseCodes == {1000, 1006}

\* ------------------------------------------------------- string functions
UpperToLower == [c \in {"A","B","C","D","E","F","G","H","I","J","K","L","M",
                        "N","O","P","Q","R","S","T","U","V","W","X","Y","Z"} |->
                   CASE c = "A" -> "a" [] c = "B" -> "b" [] c = "C" -> "c"
                     [] c = "D" -> "d" [] c = "E" -> "e" [] c = "F" -> "f"
                     [] c = "G" -> "g" [] c = "H" -> "h" [] c = "I" -> "i"
                     [] c = "J" -> "j" [] c = "K" -> "k" [] c = "L" -> "l"
                     [] c = "M" -> "m" [] c = "N" -> "n" [] c = "O" -> "o"
                     [] c = "P" -> "p" [] c = "Q" -> "q" [] c = "R" -> "r"
                     [] c = "S" -> "s" [] c = "T" -> "t" [] c = "U" -> "u"
                     [] c = "V" -> "v" [] c = "W" -> "w" [] c = "X" -> "x"
                     [] c = "Y" -> "y" [] c = "Z" -> "z"]

\* String.prototype.toLowerCase (the inputs are ASCII)
ToLowerCase(s) ==
    [i \in 1..Len(s) |-> IF s[i] \in DOMAIN UpperToLower
                         THEN UpperToLower[s[i]] ELSE s[i]]

\* String.prototype.includes
Includes(s, w) ==
    \E i \in 0..(Len(s) - Len(w)) : SubSeq(s, i + 1, i + Len(w)) = w

WhiteSpace == {" ", "\t", "\n"}

RECURSIVE TrimStart(_)
TrimStart(s) ==
    IF s # <<>> /\ Head(s) \in WhiteSpace THEN TrimStart(Tail(s)) ELSE s

RECURSIVE TrimEnd(_)
TrimEnd(s) ==
    IF s # <<>> /\ s[Len(s)] \in WhiteSpace
    THEN TrimEnd(SubSeq(s, 1, Len(s) - 1)) ELSE s

\* String.prototype.trim
Trim(s) == TrimEnd(TrimStart(s))

DigitChar == [d \in 0..9 |->
                CASE d = 0 -> "0" [] d = 1 -> "1" [] d = 2 -> "2"
                  [] d = 3 -> "3" [] d = 4 -> "4" [] d = 5 -> "5"
                  [] d = 6 -> "6" [] d = 7 -> "7" [] d = 8 -> "8"
                  [] d = 9 -> "9"]

\* decimal rendering of a number inside a template literal
RECURSIVE NumberToString(_)
NumberToString(n) ==
    IF n < 10 THEN <<DigitChar[n]>>
    ELSE NumberToString(n \div 10) \o <<DigitChar[n % 10]>>

\* ------------------------------------------------------------ classifier
\* a chain that tests the tool words before the failure words
ClassifyToolFirst(text) ==
    IF Includes(ToLowerCase(text), W_tool)
       \/ Includes(ToLowerCase(text), W_clicked)
    THEN "tool"
    ELSE IF Includes(ToLowerCase(text), W_error)
            \/ Includes(ToLowerCase(text), W_fail)
    THEN "error"
    ELSE IF Includes(ToLowerCase(text), W_completed)
            \/ Includes(ToLowerCase(text), W_success)
    THEN "success"
    ELSE "info"

\* the if / else-if chain of ws.onmessage that picks the entry type
Classify(text) ==
    IF Includes(ToLowerCase(text), W_error) \/ Includes(ToLowerCase(text), W_fail)
    THEN "error"
    ELSE IF Includes(ToLowerCase(text), W_tool)
            \/ Includes(ToLowerCase(text), W_clicked)
    THEN "tool"
    ELSE IF Includes(ToLowerCase(text), W_completed)
            \/ Includes(ToLowerCase(text), W_success)
    THEN "success"
    ELSE "info"

CompletionWords == {W_completed, W_done, W_success, W_satisfied}

\* a regex test that forgets the i flag
IsCompletionCaseSensitive(text) ==
    \E w \in CompletionWords : Includes(text, w)

\* a completion test that every text passes
IsCompletionAnyText(text) == TRUE

\* /(completed|done|success|satisfied)/i.test(text)
IsCompletion(text) ==
    \E w \in CompletionWords : Includes(ToLowerCase(text), w)

\* typeof ev.data === "string" ? ev.data : String(ev.data)
FrameText(d) == IF d.kind = "string" THEN d.chars ELSE BlobText

\* ------------------------------------------------------------- log store
\* the log store as one value: the entries and nextIdRef.current
Store(ls, n) == [logs |-> ls, nextId |-> n]

\* a pushLog that inserts the entry at the head
PushLogAtHead(st, type, message) ==
    Store(<<[id |-> st.nextId, type |-> type, message |-> message]>> \o st.logs,
          st.nextId + 1)

\* a pushLog that reads the counter without advancing it
PushLogNoIncrement(st, type, message) ==
    Store(Append(st.logs, [id |-> st.nextId, type |-> type, message |-> message]),
          st.nextId)

\* pushLog: id = nextIdRef.current++, entry appended at the tail
PushLog(st, type, message) ==
    Store(Append(st.logs, [id |-> st.nextId, type |-> type, message |-> message]),
          st.nextId + 1)

\* the store the handlers of the current step start from
Cur == Store(logs, nextId)

\* the model lets a handler run only while its entries fit under MaxLog
LogRoom(k) == Len(logs) + k <= MaxLog

\* -------------------------------------------------------------- messages
ConnectedMessage == ConnectedPrefix \o WS_URL \o <<")">>

\* a close message that leaves the code out
ClosedMessageNoCode(code) == ClosedPrefix \o <<")">>

\* `WebSocket closed (code=${ev.code})`
ClosedMessage(code) == ClosedPrefix \o NumberToString(code) \o <<")">>

\* an executing message built from the trimmed goal
ExecutingMessageTrimmed(g) == ExecutingPrefix \o Trim(g)

\* `Executing goal: ${goal}`
ExecutingMessage(g) == ExecutingPrefix \o g

FailedMessage == FailedPrefix \o SendErrorText

\* ------------------------------------------------------------ last event
\* ev records the event dispatched by the last step: which handler, its
\* argument, and the run state and socket it found
Event(op, text, code) ==
    [op |-> op, text |-> text, code |-> code, wasRunning |-> isRunning,
     wasOpen |-> (wsRef # "null" /\ readyState = "OPEN")]

\* ----------------------------------------------------------------- Init
\* the state after the first render and the mount effect: one seeded
\* entry, nextIdRef = logs.length + 1, a connecting socket held in wsRef
Init ==
    /\ goal = <<>>
    /\ isRunning = FALSE
    /\ logs = <<[id |-> 1, type |-> "info", message |-> MsgReady]>>
    /\ nextId = 2
    /\ wsRef = "ws"
    /\ readyState = "CONNECTING"
    /\ closeDelivered = FALSE
    /\ sent = <<>>
    /\ view = FALSE
    /\ toast = "none"
    /\ ev = [op |-> "mount", text |-> <<>>, code |-> 0, wasRunning |-> FALSE,
             wasOpen |-> FALSE]
    /\ delivered = <<>>
    /\ mounted = TRUE
    /\ mounts = 1
    /\ released = <<>>

\* --------------------------------------------------- connection callbacks
\* ws.onopen
OnOpen ==
    /\ readyState = "CONNECTING"
    /\ LogRoom(1)
    /\ readyState' = "OPEN"
    /\ LET st == PushLog(Cur, "info", ConnectedMessage)
       IN  logs' = st.logs /\ nextId' = st.nextId
    /\ ev' = Event("open", <<>>, 0)
    /\ UNCHANGED <<goal, isRunning, wsRef, closeDelivered, sent, view, toast>>
    /\ UNCHANGED <<delivered, lifecycle>>

\* ws.onmessage
OnMessage(d) ==
    /\ readyState = "OPEN"
    /\ LogRoom(1)
    /\ LET text == FrameText(d)
           st == PushLog(Cur, Classify(text), text)
       IN  /\ logs' = st.logs
           /\ nextId' = st.nextId
           /\ isRunning' = IF IsCompletion(text) THEN FALSE ELSE isRunning
           /\ ev' = Event("message", text, 0)
    /\ delivered' = Append(delivered, d)
    /\ UNCHANGED <<goal, wsRef, readyState, closeDelivered, sent, view, toast>>
    /\ UNCHANGED lifecycle

\* the handle reference ws.onclose leaves behind
WsRefAfterCloseKept == wsRef

WsRefAfterClose == "null"

\* ws.onclose; the transport has set readyState to CLOSED before it fires
OnClose(code) ==
    /\ ~closeDelivered
    /\ readyState \in {"OPEN", "CLOSING", "CLOSED"}
    /\ LogRoom(1)
    /\ readyState' = "CLOSED"
    /\ closeDelivered' = TRUE
    /\ LET st == PushLog(Cur, "info", ClosedMessage(code))
       IN  logs' = st.logs /\ nextId' = st.nextId
    /\ wsRef' = WsRefAfterClose
    /\ isRunning' = FALSE
    /\ ev' = Event("close", <<>>, code)
    /\ UNCHANGED <<goal, sent, view, toast>>
    /\ UNCHANGED <<delivered, lifecycle>>

\* ws.onerror; the connection has failed, readyState is CLOSED, and the
\* close event is still to come
OnError ==
    /\ ~closeDelivered
    /\ readyState \in {"CONNECTING", "OPEN", "CLOSING"}
    /\ LogRoom(1)
    /\ readyState' = "CLOSED"
    /\ LET st == PushLog(Cur, "error", MsgSocketError)
       IN  logs' = st.logs /\ nextId' = st.nextId
    /\ ev' = Event("error", <<>>, 0)
    /\ UNCHANGED <<goal, isRunning, wsRef, closeDelivered, sent, view, toast>>
    /\ UNCHANGED <<delivered, lifecycle>>

\* the peer starts the closing handshake: the socket leaves OPEN before
\* any callback runs
PeerClosing ==
    /\ readyState = "OPEN"
    /\ readyState' = "CLOSING"
    /\ ev' = Event("closing", <<>>, 0)
    /\ UNCHANGED <<goal, isRunning, logs, nextId, wsRef, closeDelivered, sent,
                   view, toast>>
    /\ UNCHANGED <<delivered, lifecycle>>

\* ---------------------------------------------------------- user handlers
\* a blank test that forgets trim()
IsBlankNoTrim(g) == g = <<>>

\* !goal.trim()
IsBlank(g) == Trim(g) = <<>>

\* a handleRun without its socket test
SocketOpenAlways == TRUE

\* a socket test that only looks at the reference
SocketOpenRefOnly == wsRef # "null"

\* the negation of  !wsRef.current || wsRef.current.readyState !== OPEN
SocketOpen == wsRef # "null" /\ readyState = "OPEN"

\* a handleRun whose catch block logs the failure but leaves isRunning set
HandleRunNoRollback ==
    IF IsBlank(goal)
    THEN /\ toast' = "error: Please enter a goal"
         /\ view' = isRunning
         /\ UNCHANGED <<goal, isRunning, logs, nextId, wsRef, readyState,
                        closeDelivered, sent, delivered>>
    ELSE IF ~SocketOpen
    THEN /\ LogRoom(1)
         /\ toast' = "error: Not connected to backend. Retry in a moment."
         /\ LET st == PushLog(Cur, "error", MsgNotOpen)
            IN  logs' = st.logs /\ nextId' = st.nextId
         /\ view' = isRunning
         /\ UNCHANGED <<goal, isRunning, wsRef, readyState, closeDelivered, sent,
                        delivered>>
    ELSE \E throws \in BOOLEAN :
         LET st1 == PushLog(Cur, "info", ExecutingMessage(goal))
             st2 == PushLog(st1, "error", FailedMessage)
         IN  /\ toast' = "success: Agent execution started"
             /\ IF throws
                THEN /\ LogRoom(2)
                     /\ logs' = st2.logs /\ nextId' = st2.nextId
                     /\ isRunning' = TRUE
                     /\ sent' = sent
                ELSE /\ LogRoom(1)
                     /\ Len(sent) < MaxSent
                     /\ logs' = st1.logs /\ nextId' = st1.nextId
                     /\ isRunning' = TRUE
                     /\ sent' = Append(sent, goal)
             /\ view' = isRunning'
             /\ UNCHANGED <<goal, wsRef, readyState, closeDelivered, delivered>>

\* handleRun; throws is whether wsRef.current.send(goal) raises
HandleRun ==
    IF IsBlank(goal)
    THEN /\ toast' = "error: Please enter a goal"
         /\ view' = isRunning
         /\ UNCHANGED <<goal, isRunning, logs, nextId, wsRef, readyState,
                        closeDelivered, sent, delivered>>
    ELSE IF ~SocketOpen
    THEN /\ LogRoom(1)
         /\ toast' = "error: Not connected to backend. Retry in a moment."
         /\ LET st == PushLog(Cur, "error", MsgNotOpen)
            IN  logs' = st.logs /\ nextId' = st.nextId
         /\ view' = isRunning
         /\ UNCHANGED <<goal, isRunning, wsRef, readyState, closeDelivered, sent,
                        delivered>>
    ELSE \E throws \in BOOLEAN :
         LET st1 == PushLog(Cur, "info", ExecutingMessage(goal))
             st2 == PushLog(st1, "error", FailedMessage)
         IN  /\ toast' = "success: Agent execution started"
             /\ IF throws
                THEN /\ LogRoom(2)
                     /\ logs' = st2.logs /\ nextId' = st2.nextId
                     /\ isRunning' = FALSE
                     /\ sent' = sent
                ELSE /\ LogRoom(1)
                     /\ Len(sent) < MaxSent
                     /\ logs' = st1.logs /\ nextId' = st1.nextId
                     /\ isRunning' = TRUE
                     /\ sent' = Append(sent, goal)
             /\ view' = isRunning'
             /\ UNCHANGED <<goal, wsRef, readyState, closeDelivered, delivered>>

\* a handleStop that also closes the socket
HandleStopClosing ==
    /\ LogRoom(1)
    /\ isRunning' = FALSE
    /\ LET st == PushLog(Cur, "error", MsgStopped)
       IN  logs' = st.logs /\ nextId' = st.nextId
    /\ toast' = "warning: Agent stopped"
    /\ view' = FALSE
    /\ readyState' = IF readyState \in {"CONNECTING", "OPEN"} THEN "CLOSING"
                     ELSE readyState
    /\ UNCHANGED <<goal, wsRef, closeDelivered, sent, delivered>>

\* handleStop
HandleStop ==
    /\ LogRoom(1)
    /\ isRunning' = FALSE
    /\ LET st == PushLog(Cur, "error", MsgStopped)
       IN  logs' = st.logs /\ nextId' = st.nextId
    /\ toast' = "warning: Agent stopped"
    /\ view' = FALSE
    /\ UNCHANGED <<goal, wsRef, readyState, closeDelivered, sent, delivered>>

\* a handleClear that forgets setGoal("")
HandleClearKeepGoal ==
    /\ logs' = <<>>
    /\ nextId' = 1
    /\ goal' = goal
    /\ toast' = "success: Console cleared"
    /\ view' = isRunning
    /\ delivered' = <<>>
    /\ UNCHANGED <<isRunning, wsRef, readyState, closeDelivered, sent>>

\* handleClear
HandleClear ==
    /\ logs' = <<>>
    /\ nextId' = 1
    /\ goal' = <<>>
    /\ toast' = "success: Console cleared"
    /\ view' = isRunning
    /\ delivered' = <<>>
    /\ UNCHANGED <<isRunning, wsRef, readyState, closeDelivered, sent>>

\* ------------------------------------------------------------ what the
\* rendered tree lets the user do; view is the isRunning the last committed
\* render saw, which the JSX closes over
\* an Enter handler without its run-state test
EnterAllowedAlways == TRUE

\* e.key === "Enter" && !isRunning && handleRun()
EnterAllowed == ~view

\* onKeyDown of the goal input with the Enter key
PressEnter ==
    /\ mounted
    /\ ev' = Event("enter", goal, 0)
    /\ IF EnterAllowed
       THEN HandleRun
       ELSE UNCHANGED <<goal, isRunning, logs, nextId, wsRef, readyState,
                        closeDelivered, sent, view, toast, delivered>>
    /\ UNCHANGED lifecycle

\* onClick of the Run Goal button, rendered when isRunning is false
ClickRun ==
    /\ mounted
    /\ ~view
    /\ ev' = Event("run", goal, 0)
    /\ HandleRun
    /\ UNCHANGED lifecycle

\* onClick of the Stop button, rendered when isRunning is true
ClickStop ==
    /\ mounted
    /\ view
    /\ ev' = Event("stop", <<>>, 0)
    /\ HandleStop
    /\ UNCHANGED lifecycle

\* onClick of the clear button, always rendered
ClickClear ==
    /\ mounted
    /\ ev' = Event("clear", <<>>, 0)
    /\ HandleClear
    /\ UNCHANGED lifecycle

\* onChange of the goal input, disabled while isRunning
TypeGoal(g) ==
    /\ mounted
    /\ ~view
    /\ g # goal
    /\ goal' = g
    /\ view' = isRunning
    /\ ev' = Event("type", g, 0)
    /\ UNCHANGED <<isRunning, logs, nextId, wsRef, readyState, closeDelivered,
                   sent, toast>>
    /\ UNCHANGED <<delivered, lifecycle>>

\* the re-render that commits a run state set from a connection callback
Render ==
    /\ mounted
    /\ view # isRunning
    /\ view' = isRunning
    /\ ev' = Event("render", <<>>, 0)
    /\ UNCHANGED <<goal, isRunning, logs, nextId, wsRef, readyState,
                   closeDelivered, sent, toast>>
    /\ UNCHANGED <<delivered, lifecycle>>

\* ------------------------------------------------------------------ Next
Next ==
    \/ OnOpen
    \/ \E d \in Frames : OnMessage(d)
    \/ \E code \in CloseCodes : OnClose(code)
    \/ OnError
    \/ PeerClosing
    \/ PressEnter
    \/ ClickRun
    \/ ClickStop
    \/ ClickClear
    \/ \E g \in Goals : TypeGoal(g)
    \/ Render

Spec == Init /\ [][Next]_vars

TypeOK ==
    /\ goal \in Goals
    /\ isRunning \in BOOLEAN
    /\ view \in BOOLEAN
    /\ wsRef \in {"ws", "null"}
    /\ readyState \in {"CONNECTING", "OPEN", "CLOSING", "CLOSED", "NONE"}
    /\ closeDelivered \in BOOLEAN
    /\ Len(logs) <= MaxLog
    /\ Len(sent) <= MaxSent
    /\ Len(delivered) <= MaxLog
    /\ mounted \in BOOLEAN
    /\ mounts \in 1..MaxMounts
    /\ Len(released) <= MaxMounts

\* -------------------------------------------- effect cleanup and re-run
\* The cleanup of the mount effect closes the socket it created and clears
\* wsRef, but leaves the socket's callbacks attached.  The model keeps the
\* component's state and refs across a cleanup, as React does when it
\* re-runs the effects of a component it has kept, so the callbacks of a
\* released socket act on the same log, counter, run state and wsRef.

\* a cleanup that forgets ws.close()
ReadyStateAfterCloseForgotten(rs) == rs

\* WebSocket.close(): a connecting or open socket starts closing, a closing
\* or closed one is left as it is and nothing is raised
ReadyStateAfterClose(rs) ==
    IF rs \in {"CONNECTING", "OPEN"} THEN "CLOSING" ELSE rs

\* the function returned by the effect: try { ws.close() } catch {} and
\* wsRef.current = null; the socket joins the released ones
Cleanup ==
    /\ mounted
    /\ released' = Append(released,
                          [readyState |-> ReadyStateAfterClose(readyState),
                           closeDelivered |-> closeDelivered])
    /\ wsRef' = "null"
    /\ mounted' = FALSE
    /\ readyState' = "NONE"
    /\ closeDelivered' = FALSE
    /\ ev' = Event("unmount", <<>>, 0)
    /\ UNCHANGED <<goal, isRunning, logs, nextId, sent, view, toast, delivered,
                   mounts>>

\* the effect body run again: a new socket, stored in wsRef
Remount ==
    /\ ~mounted
    /\ mounts < MaxMounts
    /\ mounted' = TRUE
    /\ mounts' = mounts + 1
    /\ wsRef' = "ws"
    /\ readyState' = "CONNECTING"
    /\ closeDelivered' = FALSE
    /\ ev' = Event("remount", <<>>, 0)
    /\ UNCHANGED <<goal, isRunning, logs, nextId, sent, view, toast, delivered,
                   released>>

\* ws.onerror of a released socket whose closing fails
StaleOnError ==
    /\ LogRoom(1)
    /\ \E i \in 1..Len(released) :
           /\ released[i].readyState = "CLOSING"
           /\ ~released[i].closeDelivered
           /\ released' = [released EXCEPT ![i].readyState = "CLOSED"]
    /\ LET st == PushLog(Cur, "error", MsgSocketError)
       IN  logs' = st.logs /\ nextId' = st.nextId
    /\ ev' = Event("stale-error", <<>>, 0)
    /\ UNCHANGED <<goal, isRunning, wsRef, readyState, closeDelivered, sent,
                   view, toast, delivered, mounted, mounts>>

\* ws.onclose of a released socket
StaleOnClose(code) ==
    /\ LogRoom(1)
    /\ \E i \in 1..Len(released) :
           /\ released[i].readyState \in {"CLOSING", "CLOSED"}
           /\ ~released[i].closeDelivered
           /\ released' = [released EXCEPT
                             ![i] = [readyState |-> "CLOSED",
                                     closeDelivered |-> TRUE]]
    /\ LET st == PushLog(Cur, "info", ClosedMessage(code))
       IN  logs' = st.logs /\ nextId' = st.nextId
    /\ wsRef' = WsRefAfterClose
    /\ isRunning' = FALSE
    /\ ev' = Event("stale-close", <<>>, code)
    /\ UNCHANGED <<goal, readyState, closeDelivered, sent, view, toast,
                   delivered, mounted, mounts>>

\* the inputs of the runs with cleanup: one goal, one completion frame and
\* the abnormal close code, which is what a socket closed early reports
TeardownGoals == { <<" ","g","o"," ">> }
TeardownFrames == { TextFrame(<<"D","O","N","E">>) }
TeardownCodes == {1006}

NextTeardown ==
    \/ OnOpen
    \/ \E d \in TeardownFrames : OnMessage(d)
    \/ \E code \in TeardownCodes : OnClose(code)
    \/ OnError
    \/ ClickRun
    \/ ClickStop
    \/ ClickClear
    \/ \E g \in TeardownGoals : TypeGoal(g)
    \/ Render
    \/ Cleanup
    \/ Remount
    \/ StaleOnError
    \/ \E code \in TeardownCodes : StaleOnClose(code)

SpecTeardown == Init /\ [][NextTeardown]_vars

\* ------------------------------------------------ the classifier alone
\* the console right after ws.onopen, fed only inbound text frames
InitClassify ==
    /\ goal = <<>>
    /\ isRunning = FALSE
    /\ logs = <<[id |-> 1, type |-> "info", message |-> MsgReady],
                [id |-> 2, type |-> "info", message |-> ConnectedMessage]>>
    /\ nextId = 3
    /\ wsRef = "ws"
    /\ readyState = "OPEN"
    /\ closeDelivered = FALSE
    /\ sent = <<>>
    /\ view = FALSE
    /\ toast = "none"
    /\ ev = [op |-> "open", text |-> <<>>, code |-> 0, wasRunning |-> FALSE,
             wasOpen |-> FALSE]
    /\ delivered = <<>>
    /\ mounted = TRUE
    /\ mounts = 1
    /\ released = <<>>

NextClassify ==
    \/ \E d \in ClassifierFrames : OnMessage(d)
    \/ ClickClear

SpecClassify == InitClassify /\ [][NextClassify]_vars

\* ================================================================ claims
\* In the action formulas below a step is recognised by the event it
\* leaves in ev': op "enter" or "run" is a submit, "stop" a stop, and so on.
\* The unprimed variables are the state the operation found.

\* C1: in a state where the run state is running, a submit of any goal is
\* rejected: nothing is sent on the transport, nothing is appended to the
\* log and the run state stays running.
C1_SubmitWhileRunningRejected ==
    [][(isRunning /\ ev'.op \in {"enter", "run"})
         => (sent' = sent /\ logs' = logs /\ nextId' = nextId /\ isRunning')]_vars

\* a submit was attempted while the one sent goal was in flight
C1_Witness ==
    /\ ev.op = "enter" /\ ev.wasRunning /\ ev.wasOpen
    /\ LET g == ev.text IN \E i \in 1..Len(g) : g[i] \notin WhiteSpace
    /\ isRunning
    /\ Len(sent) = 1

\* C2: a stop invoked while the run state is idle leaves the log entries,
\* the next id and the run state exactly as they were.
C2_StopWhileIdleIsNoOp ==
    [][(~isRunning /\ ev'.op = "stop")
         => (logs' = logs /\ nextId' = nextId /\ isRunning' = isRunning)]_vars

\* C3: a submit of an empty or whitespace-only goal, in any run state and
\* any connection state, sends nothing and leaves the run state unchanged.
C3_BlankSubmitSendsNothing ==
    [][(/\ ev'.op \in {"enter", "run"}
        /\ \A i \in 1..Len(goal) : goal[i] \in WhiteSpace)
         => (sent' = sent /\ isRunning' = isRunning)]_vars

\* a whitespace-only goal was submitted while idle over an open connection
C3_Witness ==
    /\ ev.op = "run" /\ ev.wasOpen /\ ~ev.wasRunning
    /\ ev.text # <<>>
    /\ LET g == ev.text IN \A i \in 1..Len(g) : g[i] \in WhiteSpace
    /\ toast = "error: Please enter a goal"

\* C4: a submit of a non-blank goal that reaches handleRun while idle and
\* while the connection is not open sends nothing, appends exactly one
\* error entry and leaves the run state idle.
C4_SubmitNotConnectedRefused ==
    [][(/\ ev'.op \in {"enter", "run"}
        /\ ~view /\ ~isRunning
        /\ \E i \in 1..Len(goal) : goal[i] \notin WhiteSpace
        /\ (wsRef = "null" \/ readyState # "OPEN"))
         => (/\ sent' = sent
             /\ ~isRunning'
             /\ Len(logs') = Len(logs) + 1
             /\ SubSeq(logs', 1, Len(logs)) = logs
             /\ logs'[Len(logs')].type = "error")]_vars

\* a non-blank goal was submitted while the socket was still connecting
C4_Witness ==
    /\ ev.op = "run" /\ ~ev.wasOpen /\ ~ev.wasRunning
    /\ LET g == ev.text IN \E i \in 1..Len(g) : g[i] \notin WhiteSpace
    /\ wsRef = "ws" /\ readyState = "CONNECTING"
    /\ logs # <<>> /\ logs[Len(logs)].message = MsgNotOpen
    /\ ~isRunning

\* C5: right after onmessage has handled a text containing completed, done,
\* success or satisfied in any letter case, the run state is idle, whatever
\* it was before and whatever type the entry got.
C5_CompletionForcesIdle ==
    (/\ ev.op = "message"
     /\ \E w \in {W_completed, W_done, W_success, W_satisfied} :
            Includes(ToLowerCase(ev.text), w))
      => ~isRunning

\* an upper-case DONE, logged as info, arrived while a goal was running
C5_Witness ==
    /\ ev.op = "message" /\ ev.wasRunning
    /\ ev.text = <<"D", "O", "N", "E">>
    /\ logs # <<>> /\ logs[Len(logs)].type = "info"
    /\ ~isRunning

\* C6: the ids in the log are pairwise distinct and strictly increasing in
\* append order, a clear empties the log and resets the next id to 1, and
\* the first entry appended to an emptied log has id 1.
C6_IdsIncreasingAndResetByClear ==
    /\ [](\A i, j \in 1..Len(logs) : i < j => logs[i].id < logs[j].id)
    /\ [][/\ (ev'.op = "clear") => (logs' = <<>> /\ nextId' = 1)
          /\ (logs = <<>> /\ logs' # <<>>) => logs'[1].id = 1]_vars

\* three entries appended after a clear, from different handlers
C6_Witness ==
    /\ Len(logs) = 3
    /\ logs[1].message # MsgReady
    /\ logs[1].id = 1
    /\ logs[1].type # logs[2].type

\* C7: when the close event is delivered with code c, exactly one info
\* entry whose message contains c is appended and the run state is idle
\* afterwards.
C7_CloseAppendsInfoAndForcesIdle ==
    [][(ev'.op = "close")
         => LET digits == IF ev'.code = 1000 THEN <<"1", "0", "0", "0">>
                          ELSE <<"1", "0", "0", "6">>
            IN  /\ ev'.code \in CloseCodes
                /\ Len(logs') = Len(logs) + 1
                /\ SubSeq(logs', 1, Len(logs)) = logs
                /\ logs'[Len(logs')].type = "info"
                /\ Includes(logs'[Len(logs')].message, digits)
                /\ ~isRunning']_vars

\* the close event with code 1006 arrived while a goal was running
C7_Witness ==
    /\ ev.op = "close" /\ ev.code = 1006 /\ ev.wasRunning
    /\ ~isRunning
    /\ logs # <<>> /\ Includes(logs[Len(logs)].message, <<"1", "0", "0", "6">>)

\* C8: once the close event has been delivered the handle stays dead (no
\* reference, socket closed), nothing is ever sent again, a later non-blank
\* submit that reaches handleRun appends an error entry, and the run state
\* stays idle.
C8_NoReconnectAfterClose ==
    /\ [](closeDelivered => (wsRef = "null" /\ readyState = "CLOSED" /\ ~isRunning))
    /\ [][closeDelivered
            => (/\ closeDelivered'
                /\ sent' = sent
                /\ (/\ ev'.op \in {"enter", "run"}
                    /\ ~view
                    /\ \E i \in 1..Len(goal) : goal[i] \notin WhiteSpace)
                     => (/\ Len(logs') = Len(logs) + 1
                         /\ logs'[Len(logs')].type = "error"))]_vars

\* a goal had been sent, the connection closed, and a later submit was refused
C8_Witness ==
    /\ closeDelivered
    /\ Len(sent) = 1
    /\ ev.op = "run"
    /\ LET g == ev.text IN \E i \in 1..Len(g) : g[i] \notin WhiteSpace
    /\ logs # <<>> /\ logs[Len(logs)].message = MsgNotOpen

\* C9: right after the error event has been handled in a state where the
\* run state was running, the run state is idle and an error entry has been
\* appended.
C9_ErrorForcesIdle ==
    (ev.op = "error" /\ ev.wasRunning)
      => (~isRunning /\ logs # <<>> /\ logs[Len(logs)].type = "error")

\* C10: every operation that is refused or fails (a submit that reaches
\* handleRun and sends nothing, the error event, the close event) appends
\* at least one entry to the log in the same step.
C10_NoSilentDrop ==
    [][(\/ ev'.op \in {"error", "close"}
        \/ (ev'.op \in {"enter", "run"} /\ ~view /\ sent' = sent))
         => Len(logs') > Len(logs)]_vars

\* C11: a submit of a non-blank goal that reaches handleRun while idle with
\* an open connection, and whose send does not fail, appends exactly one
\* info entry "Executing goal: <goal>", puts exactly the goal text once on
\* the transport and leaves the run state running.
C11_AcceptedSubmit ==
    [][(/\ ev'.op \in {"enter", "run"}
        /\ ~view /\ ~isRunning
        /\ \E i \in 1..Len(goal) : goal[i] \notin WhiteSpace
        /\ wsRef # "null" /\ readyState = "OPEN"
        /\ logs'[Len(logs')].type # "error")
         => (/\ logs' = Append(logs, [id |-> nextId, type |-> "info",
                                      message |-> ExecutingPrefix \o goal])
             /\ sent' = Append(sent, goal)
             /\ isRunning')]_vars

\* the padded goal was accepted: logged and sent with its spaces
C11_Witness ==
    /\ ev.op = "run" /\ ev.wasOpen /\ ~ev.wasRunning
    /\ isRunning
    /\ sent # <<>> /\ sent[Len(sent)] = ev.text
    /\ Trim(ev.text) # ev.text
    /\ logs # <<>> /\ logs[Len(logs)].message = ExecutingPrefix \o ev.text

\* C12: a stop while running appends exactly one error entry noting the
\* stop and sets the run state idle; the handle reference, the socket's
\* state and the transport are untouched, so that a submit right after it
\* over the same open connection is accepted.
C12_StopIsLocal ==
    /\ [][(isRunning /\ ev'.op = "stop")
            => (/\ logs' = Append(logs, [id |-> nextId, type |-> "error",
                                         message |-> MsgStopped])
                /\ ~isRunning'
                /\ wsRef' = wsRef /\ readyState' = readyState
                /\ closeDelivered' = closeDelivered
                /\ sent' = sent)]_vars
    /\ [](( /\ ev.op = "stop" /\ ev.wasRunning /\ ev.wasOpen
            /\ \E i \in 1..Len(goal) : goal[i] \notin WhiteSpace
            /\ Len(logs) < MaxLog /\ Len(sent) < MaxSent)
           => ENABLED (ClickRun /\ isRunning' /\ sent' = Append(sent, goal)))

\* a running goal was stopped over an open connection, which is still open
C12_Witness ==
    /\ ev.op = "stop" /\ ev.wasRunning /\ ev.wasOpen
    /\ ~isRunning
    /\ wsRef = "ws" /\ readyState = "OPEN"
    /\ Len(sent) = 1
    /\ logs # <<>> /\ logs[Len(logs)].message = MsgStopped

\* C13: clear can be invoked whenever the console is mounted, idle or
\* running; after it the log and the goal input are empty, and the run
\* state, the handle and the transport are as before.
C13_ClearFrame ==
    /\ [](mounted => ENABLED ClickClear)
    /\ [][(ev'.op = "clear")
            => (/\ logs' = <<>>
                /\ goal' = <<>>
                /\ isRunning' = isRunning
                /\ wsRef' = wsRef /\ readyState' = readyState
                /\ closeDelivered' = closeDelivered
                /\ sent' = sent)]_vars

\* a clear while a goal was running and its text still in the input
C13_Witness ==
    /\ ev.op = "clear" /\ ev.wasRunning /\ ev.wasOpen
    /\ isRunning
    /\ logs = <<>> /\ goal = <<>>
    /\ Len(sent) = 1

\* C15: the run state changes only in an accepted submit (idle to running),
\* a stop, an inbound message containing a completion phrase, or the close
\* or error event (each to idle); onopen, an inbound message without a
\* completion phrase, clear, typing, and a submit that sends nothing leave
\* it unchanged.
C15_RunStateTransitions ==
    [][LET completion ==
               \E w \in {W_completed, W_done, W_success, W_satisfied} :
                   Includes(ToLowerCase(ev'.text), w)
       IN  /\ (isRunning' # isRunning)
                => \/ /\ ev'.op \in {"enter", "run"}
                      /\ ~isRunning /\ isRunning'
                      /\ sent' = Append(sent, goal)
                   \/ ev'.op = "stop" /\ ~isRunning'
                   \/ ev'.op = "message" /\ completion /\ ~isRunning'
                   \/ ev'.op \in {"close", "error"} /\ ~isRunning'
           /\ (\/ ev'.op \in {"open", "clear", "type", "closing", "render"}
               \/ ev'.op = "message" /\ ~completion
               \/ ev'.op \in {"enter", "run"} /\ sent' = sent)
                => isRunning' = isRunning]_vars

\* "Tool clicked button #3" arrived while running and left it running
C15_Witness ==
    /\ ev.op = "message" /\ ev.wasRunning
    /\ ev.text = <<"T","o","o","l"," ","c","l","i","c","k","e","d"," ",
                   "b","u","t","t","o","n"," ","#","3">>
    /\ logs # <<>> /\ logs[Len(logs)].type = "tool"
    /\ logs[Len(logs)].message = ev.text
    /\ isRunning

\* C17: when the send of an otherwise accepted submit fails, the executing
\* entry is followed by an error entry and the run state is idle when the
\* submit finishes.
C17_SendFailureRolledBack ==
    [][(/\ ev'.op \in {"enter", "run"}
        /\ ~view /\ ~isRunning
        /\ \E i \in 1..Len(goal) : goal[i] \notin WhiteSpace
        /\ wsRef # "null" /\ readyState = "OPEN"
        /\ sent' = sent)
         => (/\ Len(logs') = Len(logs) + 2
             /\ SubSeq(logs', 1, Len(logs)) = logs
             /\ logs'[Len(logs')].type = "error"
             /\ ~isRunning')]_vars

\* a submit over an open connection whose send was rejected
C17_Witness ==
    /\ ev.op = "run" /\ ev.wasOpen /\ ~ev.wasRunning
    /\ LET g == ev.text IN \E i \in 1..Len(g) : g[i] \notin WhiteSpace
    /\ Len(logs) >= 2
    /\ logs[Len(logs)].message = FailedPrefix \o SendErrorText
    /\ logs[Len(logs) - 1].message = ExecutingPrefix \o ev.text
    /\ ~isRunning
    /\ sent = <<>>

\* C14: the type of the entry onmessage appends is error if the text
\* contains "error" or "fail" in any letter case; otherwise tool if it
\* contains "tool" or "clicked"; otherwise success if it contains
\* "completed" or "success"; otherwise info.  The empty text is info.
C14_ClassifierPrecedence ==
    (ev.op = "message")
      => LET kind == logs[Len(logs)].type
             Has(w) == Includes(ToLowerCase(ev.text), w)
             failure == Has(W_error) \/ Has(W_fail)
             tooling == Has(W_tool) \/ Has(W_clicked)
             succeeded == Has(W_completed) \/ Has(W_success)
         IN  /\ failure => kind = "error"
             /\ (~failure /\ tooling) => kind = "tool"
             /\ (~failure /\ ~tooling /\ succeeded) => kind = "success"
             /\ (~failure /\ ~tooling /\ ~succeeded) => kind = "info"
             /\ (ev.text = <<>>) => kind = "info"

\* "tool failed", which has a tool word and a failure word, was logged as error
C14_Witness ==
    /\ ev.op = "message"
    /\ ev.text = <<"t","o","o","l"," ","f","a","i","l","e","d">>
    /\ logs # <<>> /\ logs[Len(logs)].type = "error"

\* C16: the log entries that hold inbound messages are, in order and
\* verbatim (a non-string payload as its String() text), the frames the
\* transport has delivered since the last clear: none lost, none doubled,
\* none reordered, whatever user actions and lifecycle events came between.
C16_InboundOrderPreserved ==
    LET TextOf(d) == IF d.kind = "string" THEN d.chars ELSE BlobText
        Inbound(e) == e.message \in { TextOf(d) : d \in Frames }
        kept == SelectSeq(logs, Inbound)
    IN  /\ Len(kept) = Len(delivered)
        /\ \A i \in 1..Len(kept) : kept[i].message = TextOf(delivered[i])

\* two different frames were delivered with a handler's entry between them
C16_Witness ==
    /\ Len(delivered) = 2 /\ Len(logs) = 3
    /\ delivered[1].kind = "string" /\ delivered[2].kind = "string"
    /\ delivered[1] # delivered[2]
    /\ logs[1].message = delivered[1].chars
    /\ logs[2].message = MsgStopped
    /\ logs[3].message = delivered[2].chars

\* C18: the cleanup can run in every state of a mounted console (socket
\* connecting, open, closing or closed, after an error or not, idle or
\* running); it requests close on the socket, which starts closing a
\* connecting or open socket and leaves a closing or closed one as it is,
\* and it clears the reference; a released socket is never open afterwards.
C18_TeardownReleasesConnection ==
    /\ [](mounted => ENABLED Cleanup)
    /\ [](\A i \in 1..Len(released) :
              released[i].readyState \in {"CLOSING", "CLOSED"})
    /\ [][(ev'.op = "unmount")
            => (/\ Len(released') = Len(released) + 1
                /\ SubSeq(released', 1, Len(released)) = released
                /\ released'[Len(released')].readyState
                     = (IF readyState \in {"CONNECTING", "OPEN"}
                        THEN "CLOSING" ELSE readyState)
                /\ released'[Len(released')].closeDelivered = closeDelivered
                /\ wsRef' = "null"
                /\ ~mounted')]_vars

\* torn down with a goal running over an open socket, which is now closing
C18_Witness ==
    /\ ev.op = "unmount" /\ ev.wasRunning /\ ev.wasOpen
    /\ ~mounted
    /\ released # <<>> /\ released[Len(released)].readyState = "CLOSING"
    /\ wsRef = "null"

\* C19: while the console is mounted, a running run state implies that the
\* close event of its connection has not been delivered and that wsRef
\* holds the socket.
C19_RunningImpliesLiveHandle ==
    (mounted /\ isRunning)
      => (wsRef = "ws" /\ ~closeDelivered /\ readyState # "NONE")

\* running while an earlier released socket has already reported its close
C19_Witness ==
    /\ mounted /\ isRunning
    /\ mounts = 2
    /\ released # <<>> /\ released[1].closeDelivered
    /\ ev.op = "run" /\ ev.wasOpen

\* C20: an event of a released socket that is delivered after the cleanup
\* leaves the log, the id counter, the run state and wsRef as they are.
C20_StaleEventsIgnored ==
    [][(ev'.op \in {"stale-close", "stale-error"})
         => (/\ logs' = logs
             /\ nextId' = nextId
             /\ isRunning' = isRunning
             /\ wsRef' = wsRef)]_vars

====
